---- MODULE Spec2Model ----
(***************************************************************************)
(* OctoFlow action: the main phase (src/src/main.ts) saves inputs as       *)
(* state, the post phase (src/src/post.ts) fetches the run's jobs, parses  *)
(* the workflow's needs edges, renders a Mermaid graph and a timing table, *)
(* appends the summary and uploads octoflow.json.                          *)
(*                                                                         *)
(* Strings the code inspects character by character (job names, job ids,   *)
(* node identifiers, formatted durations) are sequences of one-character   *)
(* strings; strings the code only compares or passes on are TLA+ strings.  *)
(***************************************************************************)
EXTENDS Integers, Sequences, FiniteSets, TLC

VARIABLES
    pc,          \* position of the program / of the function under check
    jobs,        \* JobNode[] handed to the renderer
    edges,       \* Edge[] handed to the renderer
    mermaid,     \* the renderer's output: the lines between the fences
    tsA, tsB,    \* the two timestamps handed to ms
    msValue,     \* result of ms
    durText,     \* result of fmtDuration
    file,        \* the workflow definition file as the parser finds it
    parsed,      \* result of parseNeedsEdges
    inputs,      \* the action's inputs and the github context of the main phase
    saved,       \* the state saved by core.saveState, read by core.getState
    local,       \* the constants of post.ts run() once they are bound
    failed,      \* the phases on which core.setFailed was called
    warnings,    \* the core.warning calls made
    fetchedRun,  \* the run id handed to the API
    summary,     \* what was appended to the step summary
    payloadFile, \* the content written to octoflow.json
    uploaded     \* whether octoflow.json was uploaded as an artifact

runVars == <<inputs, saved, local, failed, warnings, fetchedRun, summary, payloadFile, uploaded>>

vars == <<pc, jobs, edges, mermaid, tsA, tsB, msValue, durText, file, parsed,
          inputs, saved, local, failed, warnings, fetchedRun, summary, payloadFile,
          uploaded>>

\* JavaScript's null, where the other values are strings.
Null == "null"

---------------------------------------------------------------------------
(* Strings as character sequences *)

Digits == <<"0", "1", "2", "3", "4", "5", "6", "7", "8", "9">>

Letters ==
    {"a", "b", "c", "d", "e", "f", "g", "h", "i", "j", "k", "l", "m",
     "n", "o", "p", "q", "r", "s", "t", "u", "v", "w", "x", "y", "z",
     "A", "B", "C", "D", "E", "F", "G", "H", "I", "J", "K", "L", "M",
     "N", "O", "P", "Q", "R", "S", "T", "U", "V", "W", "X", "Y", "Z"}

DigitChars == {Digits[i] : i \in 1..10}

\* String(n) for a non-negative integer n: its decimal digits.
RECURSIVE NumToString(_)
NumToString(n) ==
    IF n < 0 THEN <<"-">> \o NumToString(-n)
    ELSE IF n < 10 THEN <<Digits[n + 1]>>
    ELSE NumToString(n \div 10) \o <<Digits[(n % 10) + 1]>>

Uppers ==
    <<"A", "B", "C", "D", "E", "F", "G", "H", "I", "J", "K", "L", "M",
      "N", "O", "P", "Q", "R", "S", "T", "U", "V", "W", "X", "Y", "Z">>
Lowers ==
    <<"a", "b", "c", "d", "e", "f", "g", "h", "i", "j", "k", "l", "m",
      "n", "o", "p", "q", "r", "s", "t", "u", "v", "w", "x", "y", "z">>

\* s.toLowerCase()
toLowerCase(s) ==
    [i \in 1..Len(s) |->
        IF \E k \in 1..26 : Uppers[k] = s[i]
        THEN Lowers[CHOOSE k \in 1..26 : Uppers[k] = s[i]]
        ELSE s[i]]

\* s.trim(): the blanks at both ends removed
trim(s) ==
    LET keep == {i \in 1..Len(s) : s[i] # " "}
    IN  IF keep = {} THEN <<>>
        ELSE SubSeq(s, CHOOSE i \in keep : \A k \in keep : i <= k,
                       CHOOSE i \in keep : \A k \in keep : k <= i)

\* s.startsWith(p)
startsWith(s, p) == Len(p) <= Len(s) /\ SubSeq(s, 1, Len(p)) = p

\* Array.prototype.find as an index: the first of the positions that satisfy
\* the callback, 0 for undefined.
FindIndex(matching) ==
    IF matching = {} THEN 0
    ELSE CHOOSE i \in matching : \A k \in matching : i <= k

---------------------------------------------------------------------------
(* DependencyResolver: post.ts mapJobIdToApiName *)

mapJobIdToApiName_PrefixFirst(jobId, apiJobs) ==
    LET n == Len(apiJobs)
        prefixed == FindIndex({i \in 1..n : startsWith(apiJobs[i].name, jobId)})
        exact == FindIndex({i \in 1..n : apiJobs[i].name = jobId})
    IN  IF prefixed # 0 THEN apiJobs[prefixed].name
        ELSE IF exact # 0 THEN apiJobs[exact].name
        ELSE jobId

mapJobIdToApiName(jobId, apiJobs) ==
    LET n == Len(apiJobs)
        exact == FindIndex({i \in 1..n : apiJobs[i].name = jobId})
        prefixed == FindIndex({i \in 1..n : startsWith(apiJobs[i].name, jobId)})
        bracket == FindIndex({i \in 1..n :
                       startsWith(apiJobs[i].name, jobId \o <<" ", "(">>)})
    IN  IF exact # 0 THEN apiJobs[exact].name
        ELSE IF prefixed # 0 THEN apiJobs[prefixed].name
        ELSE IF bracket # 0 THEN apiJobs[bracket].name
        ELSE jobId

---------------------------------------------------------------------------
(* GraphRenderer: post.ts statusIcon, mermaidFlowLR *)

\* conclusion?.toLowerCase() ?? '' : conclusions are drawn lower-case here.
statusIcon(job) ==
    LET conclusion == IF job.conclusion = Null THEN "" ELSE job.conclusion
    IN  IF job.status = "in_progress" THEN "purple"
        ELSE IF job.status = "queued" THEN "white"
        ELSE IF conclusion = "success" THEN "check"
        ELSE IF conclusion = "skipped" THEN "skip"
        ELSE IF conclusion = "neutral" THEN "white"
        ELSE IF conclusion \in {"failure", "timed_out", "cancelled", "action_required"}
             THEN "cross"
        ELSE "white"

\* value.replace(/[^a-zA-Z0-9_]/g, '_')
sanitizeId(value) ==
    [i \in 1..Len(value) |->
        IF value[i] \in Letters \cup DigitChars \cup {"_"} THEN value[i] ELSE "_"]

nodeId_NoId(job) == <<"J", "_">> \o sanitizeId(job.name)

\* `J_${sanitizeId(job.name)}_${job.id}`
nodeId(job) == <<"J", "_">> \o sanitizeId(job.name) \o <<"_">> \o NumToString(job.id)

\* job.conclusion ?? job.status
resultOf(job) == IF job.conclusion = Null THEN job.status ELSE job.conclusion

HeaderLine == [kind |-> "header", text |-> "flowchart LR"]

nodeLine(job) ==
    [kind |-> "node", id |-> nodeId(job),
     label |-> [icon |-> statusIcon(job), name |-> job.name, result |-> resultOf(job)]]

\* jobs.find((job) => job.name === name) ?? jobs[0], as an index (0: undefined)
findJobOrFirst(name, js) ==
    LET i == FindIndex({k \in 1..Len(js) : js[k].name = name})
    IN  IF i # 0 THEN i ELSE IF Len(js) > 0 THEN 1 ELSE 0

\* An edge loop that draws an endpoint no job matches under the endpoint's own name.
edgeLine_RawUnresolved(edge, js) ==
    LET fromName == mapJobIdToApiName(edge[1], js)
        toName == mapJobIdToApiName(edge[2], js)
        fromJob == FindIndex({k \in 1..Len(js) : js[k].name = fromName})
        toJob == FindIndex({k \in 1..Len(js) : js[k].name = toName})
        endId(i, name) == IF i # 0 THEN nodeId(js[i]) ELSE <<"J", "_">> \o sanitizeId(name)
    IN  <<[kind |-> "edge", from |-> endId(fromJob, fromName), to |-> endId(toJob, toName)]>>

\* The body of the edge loop: the line pushed for one edge, <<>> on `continue`.
edgeLine(edge, js) ==
    LET fromName == mapJobIdToApiName(edge[1], js)
        toName == mapJobIdToApiName(edge[2], js)
        fromJob == findJobOrFirst(fromName, js)
        toJob == findJobOrFirst(toName, js)
    IN  IF fromJob = 0 \/ toJob = 0 THEN <<>>
        ELSE <<[kind |-> "edge", from |-> nodeId(js[fromJob]), to |-> nodeId(js[toJob])]>>

\* A renderer that merges an edge equal to the one before it.
RECURSIVE edgeLines_Dedup(_, _)
edgeLines_Dedup(es, js) ==
    IF es = <<>> THEN <<>>
    ELSE IF Len(es) > 1 /\ es[1] = es[2] THEN edgeLines_Dedup(Tail(es), js)
    ELSE edgeLine(Head(es), js) \o edgeLines_Dedup(Tail(es), js)

RECURSIVE edgeLines(_, _)
edgeLines(es, js) ==
    IF es = <<>> THEN <<>>
    ELSE edgeLine(Head(es), js) \o edgeLines(Tail(es), js)

\* A renderer without the empty-list return that draws edges between the raw ids.
mermaidFlowLR_NoEmptyReturn(js, es) ==
    <<HeaderLine>> \o [i \in 1..Len(js) |-> nodeLine(js[i])]
        \o [i \in 1..Len(es) |->
              [kind |-> "edge", from |-> <<"J", "_">> \o sanitizeId(es[i][1]),
               to |-> <<"J", "_">> \o sanitizeId(es[i][2])]]

mermaidFlowLR(js, es) ==
    IF Len(js) = 0 THEN <<HeaderLine>>
    ELSE <<HeaderLine>> \o [i \in 1..Len(js) |-> nodeLine(js[i])] \o edgeLines(es, js)

\* The earlier renderer kept in post.ts (lines 378-405): no early return for an
\* empty job list and no status icon in the label.
nodeLineLegacy(j) ==
    [kind |-> "node", id |-> nodeId(j),
     label |-> [icon |-> "", name |-> j.name, result |-> resultOf(j)]]

mermaidFlowLRLegacy(apiJobs, es) ==
    <<HeaderLine>> \o [i \in 1..Len(apiJobs) |-> nodeLineLegacy(apiJobs[i])]
        \o edgeLines(es, apiJobs)

---------------------------------------------------------------------------
(* TimingCalculator: post.ts ms, fmtDuration *)

\* A timestamp argument: undefined, null, or a string; a string is empty,
\* unparseable, or an ISO instant whose epoch milliseconds are t.
TsUndefined == [tag |-> "undefined"]
TsNull == [tag |-> "null"]
TsEmpty == [tag |-> "str", form |-> "empty"]
TsGarbage == [tag |-> "str", form |-> "garbage"]
TsIso(t) == [tag |-> "str", form |-> "iso", t |-> t]

\* number | null
NullV == [tag |-> "null"]
Num(n) == [tag |-> "num", v |-> n]
NaN == [tag |-> "nan"]
NoValue == [tag |-> "none"]

\* !a for a string | null | undefined
falsyTs(a) == a.tag \in {"undefined", "null"} \/ (a.tag = "str" /\ a.form = "empty")

\* new Date(a).getTime()
dateGetTime(a) == IF a.form = "iso" THEN Num(a.t) ELSE NaN

\* ms without the clamp at zero.
ms_NoClamp(a, b) ==
    IF falsyTs(a) \/ falsyTs(b) THEN NullV
    ELSE LET da == dateGetTime(a)
             db == dateGetTime(b)
         IN  IF da = NaN \/ db = NaN THEN NullV
             ELSE Num(db.v - da.v)

ms(a, b) ==
    IF falsyTs(a) \/ falsyTs(b) THEN NullV
    ELSE LET da == dateGetTime(a)
             db == dateGetTime(b)
         IN  IF da = NaN \/ db = NaN THEN NullV
             ELSE Num(IF db.v - da.v > 0 THEN db.v - da.v ELSE 0)

\* Math.floor(x / 1000) in place of Math.round.
roundDiv1000_Floor(x) == x \div 1000

\* Math.round(x / 1000): nearest integer, a tie goes up.
roundDiv1000(x) == (x + 500) \div 1000

\* JavaScript's %: the remainder has the sign of the dividend.
jsRem(a, b) == IF a >= 0 THEN a % b ELSE -((-a) % b)

\* The em dash placeholder (U+2014), one character.
EmDash == <<"emdash">>

fmtDuration(msv) ==
    IF msv = NullV THEN EmDash
    ELSE LET totalSeconds == roundDiv1000(msv.v)
             minutes == totalSeconds \div 60
             seconds == jsRem(totalSeconds, 60)
         IN  IF minutes <= 0 THEN NumToString(seconds) \o <<"s">>
             ELSE NumToString(minutes) \o <<"m", " ">> \o NumToString(seconds) \o <<"s">>

---------------------------------------------------------------------------
(* DefinitionParser: post.ts parseNeedsEdges *)

\* The file at the workflow path: absent, present but not parseable, or
\* parsed by YAML.parse into a document.  A document is a scalar, a mapping
\* without `jobs`, or a mapping whose `jobs` maps job ids to job definitions,
\* listed here in the order they are written.  `needs` of a job definition is
\* absent, a string, or a list of strings.
FileAbsent == [tag |-> "absent"]
FileMalformed == [tag |-> "malformed"]
FileScalar == [tag |-> "doc", doc |-> "scalar"]
FileNoJobs == [tag |-> "doc", doc |-> "nojobs"]
FileJobs(entries) == [tag |-> "doc", doc |-> "jobs", entries |-> entries]

NeedsAbsent == [tag |-> "absent"]
NeedsStr(s) == [tag |-> "str", v |-> s]
NeedsList(l) == [tag |-> "list", v |-> l]

\* Number(s) for a string of digits
RECURSIVE StringToNum(_)
StringToNum(s) ==
    IF s = <<>> THEN 0
    ELSE 10 * StringToNum(SubSeq(s, 1, Len(s) - 1))
         + (CHOOSE d \in 0..9 : Digits[d + 1] = s[Len(s)])

\* An own property key that is an array index: the canonical decimal form of
\* a non-negative integer.
isArrayIndex(key) ==
    /\ Len(key) > 0
    /\ \A i \in 1..Len(key) : key[i] \in DigitChars
    /\ (Len(key) = 1 \/ key[1] # "0")

\* Object.entries(jobs) in insertion order only (no integer keys first).
ObjectEntries_InsertionOrder(entries) == entries

\* Object.entries(jobs): array-index keys in ascending numeric order, then the
\* other keys in insertion order.
ObjectEntries(entries) ==
    LET idx == {i \in 1..Len(entries) : isArrayIndex(entries[i].id)}
        rank(i) == Cardinality({k \in idx :
                        StringToNum(entries[k].id) < StringToNum(entries[i].id)}) + 1
        sorted == [r \in 1..Cardinality(idx) |->
                        entries[CHOOSE i \in idx : rank(i) = r]]
    IN  sorted \o SelectSeq(entries, LAMBDA e : ~isArrayIndex(e.id))

\* !needs ; an empty list is truthy, an empty string is not
falsyNeeds(needs) == needs.tag = "absent" \/ (needs.tag = "str" /\ needs.v = <<>>)

\* A single string is not wrapped into a list.
needsEntries_NoWrap(needs) == IF needs.tag = "list" THEN needs.v ELSE <<>>

\* Array.isArray(needs) ? needs : [needs]
needsEntries(needs) == IF needs.tag = "list" THEN needs.v ELSE <<needs.v>>

\* The body of the loop over Object.entries(jobs): the edges pushed for one job.
jobEdges(entry) ==
    IF falsyNeeds(entry.needs) THEN <<>>
    ELSE LET deps == needsEntries(entry.needs)
         IN  [i \in 1..Len(deps) |-> <<deps[i], entry.id>>]

RECURSIVE allJobEdges(_)
allJobEdges(entries) ==
    IF entries = <<>> THEN <<>>
    ELSE jobEdges(Head(entries)) \o allJobEdges(Tail(entries))

Threw == [tag |-> "throw"]
Returned(es) == [tag |-> "ok", edges |-> es]

\* A parser that treats a file it cannot parse like a missing one.
parseNeedsEdges_IgnoreMalformed(f) ==
    IF f.tag \in {"absent", "malformed"} THEN Returned(<<>>)
    ELSE IF f.doc # "jobs" THEN Returned(<<>>)
    ELSE Returned(allJobEdges(ObjectEntries(f.entries)))

parseNeedsEdges(f) ==
    IF f.tag = "absent" THEN Returned(<<>>)
    ELSE IF f.tag = "malformed" THEN Threw
    ELSE IF f.doc # "jobs" THEN Returned(<<>>)
    ELSE Returned(allJobEdges(ObjectEntries(f.entries)))

---------------------------------------------------------------------------
(* Bounds and input pools *)

MaxJobs == 2
MaxEdges == 2

SeqsUpTo(S, n) == UNION {[1..k -> S] : k \in 0..n}

JobIds == {1, 2, 12}

\* Job ids as authored in `needs`: one that matches names below, one that
\* matches none.
LogicalIds == {<<"a">>, <<"c">>}

JobNode(id, name, status, conclusion) ==
    [id |-> id, name |-> name, status |-> status, conclusion |-> conclusion,
     started_at |-> TsNull, completed_at |-> TsNull, steps |-> <<>>]

\* Runtime jobs: an exact name, a name it prefixes, a matrix-expanded name, a
\* name that sanitizes to the same string as the matrix one, a name ending in
\* "_1"; each in one of the states the platform reports.
JobPool ==
    {JobNode(id, <<"a">>, "completed", "success") : id \in JobIds}
    \cup {JobNode(id, <<"a", "b">>, "completed", "failure") : id \in JobIds}
    \cup {JobNode(id, <<"a", " ", "(">>, "in_progress", Null) : id \in JobIds}
    \cup {JobNode(id, <<"a", "_", "(">>, "completed", "skipped") : id \in JobIds}
    \cup {JobNode(id, <<"a", "_", "1">>, "queued", Null) : id \in JobIds}

\* The platform assigns every job of a run its own id.
JobLists ==
    {js \in SeqsUpTo(JobPool, MaxJobs) :
        \A i, k \in 1..Len(js) : i # k => js[i].id # js[k].id}

EdgeLists == SeqsUpTo(LogicalIds \X LogicalIds, MaxEdges)

\* The run's variables before either phase has run.
NoInputs == [tag |-> "none"]
NoState ==
    [token |-> <<>>, artifact |-> <<>>, graph |-> <<>>, title |-> <<>>, owner |-> <<>>,
     repo |-> <<>>, runId |-> <<>>, sha |-> <<>>]

RunIdle ==
    /\ inputs = NoInputs
    /\ saved = NoState
    /\ local = NoValue
    /\ failed = {}
    /\ warnings = {}
    /\ fetchedRun = NoValue
    /\ summary = NoValue
    /\ payloadFile = NoValue
    /\ uploaded = FALSE

---------------------------------------------------------------------------
(* The renderer on its own: inputs drawn, then one of the two renderers *)

InitRender ==
    /\ pc = "render.in"
    /\ jobs \in JobLists
    /\ edges \in EdgeLists
    /\ mermaid = <<>>
    /\ tsA = TsNull /\ tsB = TsNull /\ msValue = NoValue /\ durText = <<>>
    /\ file = FileAbsent /\ parsed = NoValue
    /\ RunIdle

Render ==
    /\ pc = "render.in"
    /\ mermaid' = mermaidFlowLR(jobs, edges)
    /\ pc' = "render.out"
    /\ UNCHANGED <<jobs, edges, tsA, tsB, msValue, durText, file, parsed>>
    /\ UNCHANGED runVars

RenderLegacy ==
    /\ pc = "render.in"
    /\ mermaid' = mermaidFlowLRLegacy(jobs, edges)
    /\ pc' = "render.legacy"
    /\ UNCHANGED <<jobs, edges, tsA, tsB, msValue, durText, file, parsed>>
    /\ UNCHANGED runVars

NextRender == Render \/ RenderLegacy

SpecRender == InitRender /\ [][NextRender]_vars

---------------------------------------------------------------------------
(* Properties of the renderer, checked under SpecRender *)

Rendered == pc \in {"render.out", "render.legacy"}

Min(S) == CHOOSE x \in S : \A y \in S : x <= y

\* The three matching rules of the resolver's contract, as sets of positions.
ExactMatches(id, js) == {i \in 1..Len(js) : js[i].name = id}
PrefixMatches(id, js) ==
    {i \in 1..Len(js) :
        Len(js[i].name) >= Len(id) /\ \A k \in 1..Len(id) : js[i].name[k] = id[k]}
BracketMatches(id, js) ==
    {i \in PrefixMatches(id, js) :
        /\ Len(js[i].name) >= Len(id) + 2
        /\ js[i].name[Len(id) + 1] = " "
        /\ js[i].name[Len(id) + 2] = "("}

Resolves(id, js) ==
    ExactMatches(id, js) \cup PrefixMatches(id, js) \cup BracketMatches(id, js) # {}

\* The position the contract selects: exact > prefix > bracket, first in input order.
ExpectedNode(id, js) ==
    IF ExactMatches(id, js) # {} THEN Min(ExactMatches(id, js))
    ELSE IF PrefixMatches(id, js) # {} THEN Min(PrefixMatches(id, js))
    ELSE IF BracketMatches(id, js) # {} THEN Min(BracketMatches(id, js))
    ELSE 0

NodeLines(m) == SelectSeq(m, LAMBDA l : l.kind = "node")
EdgeLines(m) == SelectSeq(m, LAMBDA l : l.kind = "edge")

UnresolvedEdges(es, js) ==
    {i \in 1..Len(es) : ~Resolves(es[i][1], js) \/ ~Resolves(es[i][2], js)}

\* C1: with a non-empty node sequence, the number of edge lines is the number
\* of input edges minus the number of edges with an endpoint that matches no
\* node by the exact, prefix or bracket rule (such edges are dropped).
C1_UnresolvedEdgesDropped ==
    (Rendered /\ jobs # <<>>) =>
        Len(EdgeLines(mermaid)) = Len(edges) - Cardinality(UnresolvedEdges(edges, jobs))

\* C2: for every endpoint that some node matches, the edge line refers to the
\* node the precedence exact > prefix > bracket selects, the first such node in
\* input order; an exact match wins over an earlier prefix or bracket match.
\* (For a non-empty node sequence the renderer pushes one line per input edge,
\* so the i-th edge line is the one of the i-th edge.)
C2_ResolutionPrecedence ==
    (Rendered /\ jobs # <<>>) =>
        /\ Len(EdgeLines(mermaid)) = Len(edges)
        /\ \A i \in 1..Len(edges) :
            /\ Resolves(edges[i][1], jobs) =>
                 EdgeLines(mermaid)[i].from = nodeId(jobs[ExpectedNode(edges[i][1], jobs)])
            /\ Resolves(edges[i][2], jobs) =>
                 EdgeLines(mermaid)[i].to = nodeId(jobs[ExpectedNode(edges[i][2], jobs)])

\* An exact match that comes after a node matching by the prefix and bracket
\* rules is the one the rendered edge starts from.
C2_Witness ==
    /\ Rendered
    /\ Len(jobs) = 2
    /\ jobs[1].name = <<"a", " ", "(">>
    /\ jobs[2].name = <<"a">>
    /\ Len(edges) >= 1
    /\ edges[1][1] = <<"a">>
    /\ EdgeLines(mermaid)[1].from = nodeId(jobs[2])

AllResolve(es, js) == UnresolvedEdges(es, js) = {}

C4_NodeIdsDistinct ==
    Rendered =>
        /\ Len(NodeLines(mermaid)) = Len(jobs)
        /\ \A i, k \in 1..Len(jobs) :
            jobs[i].id # jobs[k].id => NodeLines(mermaid)[i].id # NodeLines(mermaid)[k].id

\* Two distinct names that sanitize to the same string were rendered.
C4_Witness ==
    /\ Rendered
    /\ Len(jobs) = 2
    /\ jobs[1].name # jobs[2].name
    /\ sanitizeId(jobs[1].name) = sanitizeId(jobs[2].name)
    /\ jobs[1].id # jobs[2].id

\* C5: for an empty node sequence the output is the header line alone,
\* whatever the edges.
C5_EmptyNodesHeaderOnly ==
    (Rendered /\ jobs = <<>>) => mermaid = <<HeaderLine>>

\* No nodes, some edges, rendered.
C5_Witness ==
    /\ Rendered
    /\ jobs = <<>>
    /\ edges # <<>>
    /\ mermaid = <<HeaderLine>>

---------------------------------------------------------------------------
(* The timing functions on their own: fmtDuration(ms(a, b)) as in the table rows *)

Instants == {0, 499, 500, 59499, 59500, 65000, 3661000}

TimestampPool ==
    {TsUndefined, TsNull, TsEmpty, TsGarbage} \cup {TsIso(t) : t \in Instants}

InitTiming ==
    /\ pc = "timing.in"
    /\ tsA \in TimestampPool
    /\ tsB \in TimestampPool
    /\ msValue = NoValue /\ durText = <<>>
    /\ jobs = <<>> /\ edges = <<>> /\ mermaid = <<>>
    /\ file = FileAbsent /\ parsed = NoValue
    /\ RunIdle

Delta ==
    /\ pc = "timing.in"
    /\ msValue' = ms(tsA, tsB)
    /\ pc' = "timing.ms"
    /\ UNCHANGED <<jobs, edges, mermaid, tsA, tsB, durText, file, parsed>>
    /\ UNCHANGED runVars

Format ==
    /\ pc = "timing.ms"
    /\ durText' = fmtDuration(msValue)
    /\ pc' = "timing.out"
    /\ UNCHANGED <<jobs, edges, mermaid, tsA, tsB, msValue, file, parsed>>
    /\ UNCHANGED runVars

NextTiming == Delta \/ Format

SpecTiming == InitTiming /\ [][NextTiming]_vars

ValidInstant(ts) == ts.tag = "str" /\ ts.form = "iso"

\* C6: ms is null when a timestamp is missing or is no valid instant, and
\* max(0, b - a) otherwise: never negative, 0 when b is before a.
C6_DeltaClamped ==
    pc \in {"timing.ms", "timing.out"} =>
        IF ValidInstant(tsA) /\ ValidInstant(tsB)
        THEN /\ msValue.tag = "num"
             /\ msValue.v >= 0
             /\ tsB.t >= tsA.t => msValue.v = tsB.t - tsA.t
             /\ tsB.t < tsA.t => msValue.v = 0
        ELSE msValue = NullV

\* b lies before a and the result is 0.
C6_Witness ==
    /\ pc = "timing.ms"
    /\ ValidInstant(tsA) /\ ValidInstant(tsB)
    /\ tsB.t < tsA.t
    /\ msValue = Num(0)

\* C7: fmtDuration gives the placeholder for null; otherwise it rounds to whole
\* seconds (a half rounds up) and gives "{m}m {s}s" when m > 0, "{s}s" when not,
\* with s in 0..59; 0 gives "0s" and 65000 gives "1m 5s".
C7_FormatDuration ==
    pc = "timing.out" =>
        /\ msValue = NullV => durText = EmDash
        /\ msValue.tag = "num" =>
            \E m \in 0..(msValue.v \div 60000 + 1), sec \in 0..59 :
                /\ 1000 * (60 * m + sec) - 500 <= msValue.v
                /\ msValue.v < 1000 * (60 * m + sec) + 500
                /\ durText = IF m > 0
                             THEN NumToString(m) \o <<"m", " ">> \o NumToString(sec) \o <<"s">>
                             ELSE NumToString(sec) \o <<"s">>
        /\ msValue = Num(0) => durText = <<"0", "s">>
        /\ msValue = Num(65000) => durText = <<"1", "m", " ", "5", "s">>
        /\ msValue = Num(59500) => durText = <<"1", "m", " ", "0", "s">>

\* 65000 ms were formatted as "1m 5s".
C7_Witness ==
    /\ pc = "timing.out"
    /\ msValue = Num(65000)
    /\ durText = <<"1", "m", " ", "5", "s">>

---------------------------------------------------------------------------
(* The parser on its own *)

MaxDocJobs == 2
MaxNeeds == 2

\* Job ids as keys of `jobs`, and ids named in `needs`.
JobKeys == {<<"b">>, <<"2">>, <<"1", "0">>}
NeedIds == {<<"a">>, <<>>}

NeedsPool ==
    {NeedsAbsent} \cup {NeedsStr(x) : x \in NeedIds}
        \cup {NeedsList(l) : l \in SeqsUpTo(NeedIds, MaxNeeds)}

\* A mapping has each key once.
DocEntries ==
    {es \in SeqsUpTo([id : JobKeys, needs : NeedsPool], MaxDocJobs) :
        \A i, k \in 1..Len(es) : i # k => es[i].id # es[k].id}

FilePool ==
    {FileAbsent, FileMalformed, FileScalar, FileNoJobs} \cup {FileJobs(es) : es \in DocEntries}

InitParse ==
    /\ pc = "parse.in"
    /\ file \in FilePool
    /\ parsed = NoValue
    /\ jobs = <<>> /\ edges = <<>> /\ mermaid = <<>>
    /\ tsA = TsNull /\ tsB = TsNull /\ msValue = NoValue /\ durText = <<>>
    /\ RunIdle

Parse ==
    /\ pc = "parse.in"
    /\ parsed' = parseNeedsEdges(file)
    /\ pc' = "parse.out"
    /\ UNCHANGED <<jobs, edges, mermaid, tsA, tsB, msValue, durText, file>>
    /\ UNCHANGED runVars

NextParse == Parse

SpecParse == InitParse /\ [][NextParse]_vars

HasJobs == file.tag = "doc" /\ file.doc = "jobs"

\* The edges of the result that end in job id.
EdgesInto(id) == SelectSeq(parsed.edges, LAMBDA e : e[2] = id)

\* The file with the needs of entry i rewritten as a one-element list.
AsOneElementList(i) ==
    FileJobs([file.entries EXCEPT ![i].needs = NeedsList(<<file.entries[i].needs.v>>)])

\* C8 as stated: a needs field that is a single string s gives the single edge
\* (s, jobId), the same result as the one-element list [s], for every string s.
C8_SingleStringAsList ==
    (pc = "parse.out" /\ HasJobs) =>
        \A i \in 1..Len(file.entries) :
            file.entries[i].needs.tag = "str" =>
                /\ EdgesInto(file.entries[i].id)
                       = <<<<file.entries[i].needs.v, file.entries[i].id>>>>
                /\ parsed = parseNeedsEdges(AsOneElementList(i))

\* C8 amended: the same for every non-empty string s.
C8_NonEmptyStringAsList ==
    (pc = "parse.out" /\ HasJobs) =>
        \A i \in 1..Len(file.entries) :
            (file.entries[i].needs.tag = "str" /\ file.entries[i].needs.v # <<>>) =>
                /\ EdgesInto(file.entries[i].id)
                       = <<<<file.entries[i].needs.v, file.entries[i].id>>>>
                /\ parsed = parseNeedsEdges(AsOneElementList(i))

\* A job with needs: "a" was parsed into the one edge (a, job).
C8_Witness ==
    /\ pc = "parse.out"
    /\ HasJobs
    /\ \E i \in 1..Len(file.entries) :
        /\ file.entries[i].needs = NeedsStr(<<"a">>)
        /\ EdgesInto(file.entries[i].id) = <<<<<<"a">>, file.entries[i].id>>>>

\* The predecessors an entry declares, every string counted.
Declared(needs) ==
    IF needs.tag = "absent" THEN <<>>
    ELSE IF needs.tag = "str" THEN <<needs.v>>
    ELSE needs.v

\* The predecessors an entry declares, a single empty string counted as none.
DeclaredNonEmpty(needs) ==
    IF needs.tag = "str" /\ needs.v = <<>> THEN <<>> ELSE Declared(needs)

PositionOf(id) == CHOOSE i \in 1..Len(file.entries) : file.entries[i].id = id

IntegerLike(id) ==
    /\ id # <<>>
    /\ \A i \in 1..Len(id) : id[i] \in {"0", "1", "2", "3", "4", "5", "6", "7", "8", "9"}
    /\ (Len(id) > 1 => id[1] # "0")

\* x before y, as the document lists them.
DocBefore(x, y) == PositionOf(x) < PositionOf(y)

\* x before y, integer-like ids first and by value, the others as the document
\* lists them.
KeyBefore(x, y) ==
    IF IntegerLike(x) /\ IntegerLike(y)
    THEN StringToNum(x) < StringToNum(y)
    ELSE IF IntegerLike(x) # IntegerLike(y) THEN IntegerLike(x)
    ELSE DocBefore(x, y)

---------------------------------------------------------------------------
(* main.ts: toBooleanString, run *)

S_true == <<"t", "r", "u", "e">>
S_false == <<"f", "a", "l", "s", "e">>
S_mermaid == <<"m", "e", "r", "m", "a", "i", "d">>
S_OctoFlow == <<"O", "c", "t", "o", "F", "l", "o", "w">>
S_NaN == <<"N", "a", "N">>

TRUE_VALUES == {<<"1">>, S_true, <<"y", "e", "s">>, <<"o", "n">>}
FALSE_VALUES == {<<"0">>, S_false, <<"n", "o">>, <<"o", "f", "f">>}

\* A flag parser that compares the input without lower-casing it.
toBooleanString_NoLowerCase(input) ==
    IF input = <<>> THEN S_true
    ELSE LET normalized == trim(input)
         IN  IF normalized \in FALSE_VALUES THEN S_false
             ELSE S_true

toBooleanString(input) ==
    IF input = <<>> THEN S_true
    ELSE LET normalized == toLowerCase(trim(input))
         IN  IF normalized \in FALSE_VALUES THEN S_false
             ELSE IF normalized \in TRUE_VALUES THEN S_true
             ELSE S_true

\* core.getInput(name): the input's value, trimmed; '' when it is not given
getInput(raw) == trim(raw)

\* x || d for strings
orDefault(x, d) == IF x = <<>> THEN d ELSE x

\* String(github.context.runId)
runIdToString(n) == IF n = NaN THEN S_NaN ELSE NumToString(n.v)

\* What the main phase saves; nothing when the required token is missing,
\* because getInput throws before the first saveState.
mainSaves(in) ==
    [token |-> getInput(in.token),
     artifact |-> toBooleanString(getInput(in.artifact)),
     graph |-> trim(orDefault(getInput(in.graph), S_mermaid)),
     title |-> orDefault(trim(getInput(in.title)), S_OctoFlow),
     owner |-> in.owner,
     repo |-> in.repo,
     runId |-> runIdToString(in.ctxRunId),
     sha |-> in.sha]

---------------------------------------------------------------------------
(* post.ts: parseState, toBoolean, tryGetWorkflowPath, buildNormalizedJobs, run *)

\* string | undefined: <<>> for undefined, <<s>> for the string s
Undef == <<>>
Some(x) == <<x>>

\* core.getState gives '' for a key that was not saved
parseState(value) == IF value = <<>> THEN Undef ELSE Some(value)

toBoolean(value) ==
    IF value = Undef \/ value[1] = <<>> THEN TRUE
    ELSE toLowerCase(trim(value[1])) \notin {<<"0">>, S_false, <<"n", "o">>, <<"o", "f", "f">>}

\* opt || d
optOr(opt, d) == IF opt = Undef \/ opt[1] = <<>> THEN d ELSE opt[1]

\* A conversion that gives 0 for a string that is not a number.
toNumber_Zero(str) ==
    IF str = <<>> THEN Num(0)
    ELSE IF \A i \in 1..Len(str) : str[i] \in DigitChars THEN Num(StringToNum(str))
    ELSE Num(0)

\* Number(s) for the strings that reach it: decimal digits, or not a number
toNumber(str) ==
    IF str = <<>> THEN Num(0)
    ELSE IF \A i \in 1..Len(str) : str[i] \in DigitChars THEN Num(StringToNum(str))
    ELSE NaN

\* GITHUB_WORKFLOW_REF as its pieces: path segments, an "@", the ref's segments;
\* <<>> when the variable is unset.  The result is the path from ".github" on,
\* Undef for null.
tryGetWorkflowPath(ref) ==
    IF ref = <<>> THEN Undef
    ELSE LET atIndex == FindIndex({i \in 1..Len(ref) : ref[i] = "@"})
             parts == IF atIndex # 0 THEN SubSeq(ref, 1, atIndex - 1) ELSE ref
             dotGithub == FindIndex({i \in 1..Len(parts) : parts[i] = ".github"})
         IN  IF dotGithub = 0 THEN Undef
             ELSE Some(SubSeq(parts, dotGithub, Len(parts)))

\* rawJobs.filter(Boolean) and the map to JobNode; a job without steps gets [].
toJobNodes(rawJobs) ==
    LET known == SelectSeq(rawJobs, LAMBDA j : j.tag = "job")
    IN  [i \in 1..Len(known) |->
            [id |-> known[i].id, name |-> known[i].name, status |-> known[i].status,
             conclusion |-> known[i].conclusion, started_at |-> known[i].started_at,
             completed_at |-> known[i].completed_at,
             steps |-> IF known[i].steps = Undef THEN <<>> ELSE known[i].steps[1]]]

buildNormalizedJobs(js) ==
    [i \in 1..Len(js) |->
        [id |-> js[i].id, name |-> js[i].name, status |-> js[i].status,
         conclusion |-> js[i].conclusion, started_at |-> js[i].started_at,
         completed_at |-> js[i].completed_at,
         steps |-> [k \in 1..Len(js[i].steps) |->
                       [name |-> js[i].steps[k].name, status |-> js[i].steps[k].status,
                        conclusion |-> js[i].steps[k].conclusion,
                        started_at |-> js[i].steps[k].started_at,
                        completed_at |-> js[i].steps[k].completed_at]]]]

\* new Date(x).toISOString() throws a RangeError for an invalid date.
startedThrows(job) == ~falsyTs(job.started_at) /\ dateGetTime(job.started_at) = NaN

tableRow(job) ==
    [name |-> job.name,
     result |-> resultOf(job),
     started |-> IF falsyTs(job.started_at) THEN EmDash ELSE job.started_at,
     duration |-> fmtDuration(ms(job.started_at, job.completed_at))]

\* a.localeCompare(b) < 0 for the characters of the job names used here: the
\* blank sorts before punctuation, punctuation before digits, digits before letters.
Collation == <<" ", "_", "(", "1", "a", "b", "c">>
charRank(c) == CHOOSE i \in 1..Len(Collation) : Collation[i] = c

RECURSIVE nameBefore(_, _)
nameBefore(a, b) ==
    IF b = <<>> THEN FALSE
    ELSE IF a = <<>> THEN TRUE
    ELSE IF Head(a) = Head(b) THEN nameBefore(Tail(a), Tail(b))
    ELSE charRank(Head(a)) < charRank(Head(b))

\* rows.sort((a, b) => a.name.localeCompare(b.name)), a stable sort
sortRows(rows) ==
    LET n == Len(rows)
        place(i) ==
            1 + Cardinality({k \in 1..n :
                    \/ nameBefore(rows[k].name, rows[i].name)
                    \/ (rows[k].name = rows[i].name /\ k < i)})
    IN  [p \in 1..n |-> rows[CHOOSE i \in 1..n : place(i) = p]]

tableRows(js) == sortRows([i \in 1..Len(js) |-> tableRow(js[i])])

supportedFormat(graphFormat) == graphFormat = S_mermaid \/ graphFormat = <<>>

\* The markdown appended to the step summary, by its parts.
markdownOf(loc, graph, rows) ==
    [title |-> loc.title,
     run |-> [owner |-> loc.owner, repo |-> loc.repo, id |-> loc.runId,
              url |-> loc.runData.html_url],
     status |-> loc.runData.status,
     conclusion |-> loc.runData.conclusion,
     started |-> loc.runData.run_started_at,
     pipeline |-> IF graph = <<>> THEN [tag |-> "text", text |-> "Mermaid graph is not available yet."]
                  ELSE [tag |-> "mermaid", lines |-> graph],
     jobs |-> rows]

\* A payload that keeps only the edges the graph can draw between two jobs.
payloadOf_DrawnEdges(loc, js, es) ==
    [version |-> 1,
     repo |-> <<loc.owner, loc.repo>>,
     run |-> [id |-> loc.runId,
              name |-> IF loc.runData.name = Null THEN "#id" ELSE loc.runData.name,
              status |-> loc.runData.status,
              conclusion |-> loc.runData.conclusion,
              sha |-> loc.sha,
              created_at |-> loc.runData.created_at,
              run_started_at |-> loc.runData.run_started_at],
     jobs |-> buildNormalizedJobs(js),
     edges |-> SelectSeq(es, LAMBDA e :
                  \A x \in {e[1], e[2]} :
                      \E k \in 1..Len(js) : js[k].name = mapJobIdToApiName(x, js)),
     workflow_path |-> loc.workflowPath]

payloadOf(loc, js, es) ==
    [version |-> 1,
     repo |-> <<loc.owner, loc.repo>>,
     run |-> [id |-> loc.runId,
              name |-> IF loc.runData.name = Null THEN "#id" ELSE loc.runData.name,
              status |-> loc.runData.status,
              conclusion |-> loc.runData.conclusion,
              sha |-> loc.sha,
              created_at |-> loc.runData.created_at,
              run_started_at |-> loc.runData.run_started_at],
     jobs |-> buildNormalizedJobs(js),
     edges |-> es,
     workflow_path |-> loc.workflowPath]

---------------------------------------------------------------------------
(* Input pools of a whole run *)

TokenInputs == {<<>>, <<"t", "k">>}
ArtifactInputs == {<<>>, S_false, <<" ", "O", "F", "F", " ">>, <<"m", "a", "y", "b", "e">>}
GraphInputs == {<<>>, <<"M", "e", "r", "m", "a", "i", "d">>, <<"d", "o", "t">>}
TitleInputs == {<<>>}
RunIdInputs == {<<>>, <<"7", "7">>}
ContextRunIds == {Num(12), NaN}
ContextShas == {<<>>, <<"c", "0", "f", "e">>}

InputPool ==
    [tag : {"in"}, token : TokenInputs, artifact : ArtifactInputs, graph : GraphInputs,
     title : TitleInputs, runId : RunIdInputs, owner : {<<"o">>}, repo : {<<"r">>},
     ctxRunId : ContextRunIds, sha : ContextShas]

RunDataPool ==
    {[name |-> "CI", status |-> "completed", conclusion |-> "success", html_url |-> "url",
      created_at |-> TsIso(0), run_started_at |-> TsIso(500)],
     [name |-> Null, status |-> "in_progress", conclusion |-> Null, html_url |-> "",
      created_at |-> TsIso(0), run_started_at |-> TsNull]}

Step(name, status, conclusion) ==
    [name |-> name, status |-> status, conclusion |-> conclusion,
     started_at |-> TsIso(0), completed_at |-> TsIso(499)]

RawJob(id, name, status, conclusion, started, completed, steps) ==
    [tag |-> "job", id |-> id, name |-> name, status |-> status, conclusion |-> conclusion,
     started_at |-> started, completed_at |-> completed, steps |-> steps]

RawNull == [tag |-> "null"]

RawJobLists ==
    {<<>>,
     <<RawJob(1, <<"a">>, "completed", "success", TsIso(0), TsIso(65000),
              Some(<<Step("checkout", "completed", "success"),
                     Step("build", "completed", "success")>>)),
       RawNull,
       RawJob(2, <<"a", " ", "(">>, "in_progress", Null, TsIso(500), TsNull, Undef)>>,
     <<RawJob(12, <<"a", "b">>, "completed", "failure", TsIso(59500), TsIso(0),
              Some(<<Step("test", "completed", "failure")>>)),
       RawJob(2, <<"a">>, "queued", Null, TsUndefined, TsUndefined, Some(<<>>))>>}

WorkflowRefs ==
    {<<>>,
     <<"o", "r", ".github", "workflows", "ci.yml", "@", "refs", "heads", "main">>,
     <<"o", "r", "ci.yml", "@", "refs", "heads", "main">>}

RunFiles ==
    {FileAbsent, FileMalformed, FileNoJobs,
     FileJobs(<<[id |-> <<"a", "b">>, needs |-> NeedsStr(<<"a">>)],
                [id |-> <<"c">>, needs |-> NeedsList(<<<<"a">>, <<"a", "b">>, <<"a">>>>)],
                [id |-> <<"a">>, needs |-> NeedsAbsent]>>)}

---------------------------------------------------------------------------
(* A whole run: the main phase, then the post phase step by step *)

compVars == <<tsA, tsB, msValue, durText>>

Init ==
    /\ pc = "main"
    /\ jobs = <<>> /\ edges = <<>> /\ mermaid = <<>>
    /\ tsA = TsNull /\ tsB = TsNull /\ msValue = NoValue /\ durText = <<>>
    /\ file = FileAbsent /\ parsed = NoValue
    /\ RunIdle

\* main.ts run(): lines 21-44
Main ==
    /\ pc = "main"
    /\ \E in \in InputPool :
        /\ inputs' = in
        /\ IF getInput(in.token) = <<>>
           THEN failed' = failed \cup {"main"} /\ saved' = saved
           ELSE saved' = mainSaves(in) /\ failed' = failed
    /\ pc' = "post.state"
    /\ UNCHANGED <<jobs, edges, mermaid, file, parsed, local, warnings, fetchedRun,
                   summary, payloadFile, uploaded>>
    /\ UNCHANGED compVars

\* post.ts run(): lines 162-178
PostState ==
    /\ pc = "post.state"
    /\ LET token == parseState(saved.token)
           artifactEnabled == toBoolean(parseState(saved.artifact))
           graphFormat == toLowerCase(trim(optOr(parseState(saved.graph), S_mermaid)))
           title == optOr(parseState(saved.title), S_OctoFlow)
           owner == parseState(saved.owner)
           repo == parseState(saved.repo)
           runIdString == parseState(saved.runId)
           sha == parseState(saved.sha)
       IN  IF Undef \in {token, owner, repo, runIdString, sha}
           THEN /\ failed' = failed \cup {"post"}
                /\ pc' = "done"
                /\ local' = local
           ELSE IF toNumber(runIdString[1]) = NaN
           THEN /\ failed' = failed \cup {"post"}
                /\ pc' = "done"
                /\ local' = local
           ELSE /\ local' = [token |-> token[1], artifactEnabled |-> artifactEnabled,
                             graphFormat |-> graphFormat, title |-> title,
                             owner |-> owner[1], repo |-> repo[1],
                             runId |-> toNumber(runIdString[1]).v, sha |-> sha[1],
                             runData |-> NoValue, workflowPath |-> Undef]
                /\ pc' = "post.fetch"
                /\ failed' = failed
    /\ UNCHANGED <<jobs, edges, mermaid, file, parsed, inputs, saved, warnings,
                   fetchedRun, summary, payloadFile, uploaded>>
    /\ UNCHANGED compVars

\* post.ts run(): lines 180-214, the two requests answered
PostFetch ==
    /\ pc = "post.fetch"
    /\ fetchedRun' = Num(local.runId)
    /\ \E runData \in RunDataPool, rawJobs \in RawJobLists :
        /\ local' = [local EXCEPT !.runData = runData]
        /\ jobs' = toJobNodes(rawJobs)
        /\ warnings' = IF toJobNodes(rawJobs) = <<>>
                       THEN warnings \cup {"No jobs were returned"}
                       ELSE warnings
    /\ pc' = "post.parse"
    /\ UNCHANGED <<edges, mermaid, file, parsed, inputs, saved, failed, summary,
                   payloadFile, uploaded>>
    /\ UNCHANGED compVars

\* post.ts run(): lines 180-193, a request rejected
PostFetchFails ==
    /\ pc = "post.fetch"
    /\ fetchedRun' = Num(local.runId)
    /\ failed' = failed \cup {"post"}
    /\ pc' = "done"
    /\ UNCHANGED <<jobs, edges, mermaid, file, parsed, inputs, saved, local, warnings,
                   summary, payloadFile, uploaded>>
    /\ UNCHANGED compVars

\* post.ts run(): lines 216-218
PostParse ==
    /\ pc = "post.parse"
    /\ \E ref \in WorkflowRefs :
        LET workflowPath == tryGetWorkflowPath(ref)
        IN  /\ local' = [local EXCEPT !.workflowPath = workflowPath]
            /\ IF workflowPath = Undef
               THEN /\ edges' = <<>>
                    /\ pc' = "post.render"
                    /\ UNCHANGED <<file, parsed, failed>>
               ELSE \E f \in RunFiles :
                    /\ file' = f
                    /\ parsed' = parseNeedsEdges(f)
                    /\ IF parseNeedsEdges(f) = Threw
                       THEN /\ failed' = failed \cup {"post"}
                            /\ pc' = "done"
                            /\ edges' = edges
                       ELSE /\ edges' = parseNeedsEdges(f).edges
                            /\ pc' = "post.render"
                            /\ failed' = failed
    /\ UNCHANGED <<jobs, mermaid, inputs, saved, warnings, fetchedRun, summary,
                   payloadFile, uploaded>>
    /\ UNCHANGED compVars

\* post.ts run(): lines 220-235; the rows are kept in the summary
PostRender ==
    /\ pc = "post.render"
    /\ mermaid' = IF supportedFormat(local.graphFormat)
                  THEN mermaidFlowLR(jobs, edges) ELSE <<>>
    /\ warnings' = IF ~supportedFormat(local.graphFormat)
                   THEN warnings \cup {"Graph format is not supported yet"}
                   ELSE warnings
    /\ IF \E i \in 1..Len(jobs) : startedThrows(jobs[i])
       THEN failed' = failed \cup {"post"} /\ pc' = "done"
       ELSE failed' = failed /\ pc' = "post.summary"
    /\ UNCHANGED <<jobs, edges, file, parsed, inputs, saved, local, fetchedRun,
                   summary, payloadFile, uploaded>>
    /\ UNCHANGED compVars

\* post.ts run(): lines 237-262, GITHUB_STEP_SUMMARY set
PostSummary ==
    /\ pc = "post.summary"
    /\ summary' = markdownOf(local, mermaid, tableRows(jobs))
    /\ pc' = IF local.artifactEnabled THEN "post.artifact" ELSE "done"
    /\ UNCHANGED <<jobs, edges, mermaid, file, parsed, inputs, saved, local, failed,
                   warnings, fetchedRun, payloadFile, uploaded>>
    /\ UNCHANGED compVars

\* post.ts run(): lines 237-240, GITHUB_STEP_SUMMARY not set
PostNoSummaryPath ==
    /\ pc = "post.summary"
    /\ failed' = failed \cup {"post"}
    /\ pc' = "done"
    /\ UNCHANGED <<jobs, edges, mermaid, file, parsed, inputs, saved, local, warnings,
                   fetchedRun, summary, payloadFile, uploaded>>
    /\ UNCHANGED compVars

\* post.ts run(): lines 264-286, the upload accepted
PostArtifact ==
    /\ pc = "post.artifact"
    /\ payloadFile' = payloadOf(local, jobs, edges)
    /\ uploaded' = TRUE
    /\ pc' = "done"
    /\ UNCHANGED <<jobs, edges, mermaid, file, parsed, inputs, saved, local, failed,
                   warnings, fetchedRun, summary>>
    /\ UNCHANGED compVars

\* post.ts run(): lines 264-288, the upload rejected after the file was written
PostArtifactFails ==
    /\ pc = "post.artifact"
    /\ payloadFile' = payloadOf(local, jobs, edges)
    /\ failed' = failed \cup {"post"}
    /\ pc' = "done"
    /\ UNCHANGED <<jobs, edges, mermaid, file, parsed, inputs, saved, local, warnings,
                   fetchedRun, summary, uploaded>>
    /\ UNCHANGED compVars

Next ==
    \/ Main
    \/ PostState
    \/ PostFetch
    \/ PostFetchFails
    \/ PostParse
    \/ PostRender
    \/ PostSummary
    \/ PostNoSummaryPath
    \/ PostArtifact
    \/ PostArtifactFails

Spec == Init /\ [][Next]_vars

\* The post phase read the definition file and could not parse it.
MalformedRead ==
    /\ pc \notin {"main", "post.state", "post.fetch", "post.parse"}
    /\ local # NoValue
    /\ local.workflowPath # Undef
    /\ file = FileMalformed

\* C10: once the definition file was read and did not parse, the post phase
\* has ended failed, with nothing appended to the summary and no octoflow.json
\* written or uploaded.
C10_MalformedDefinitionFails ==
    MalformedRead =>
        /\ pc = "done"
        /\ "post" \in failed
        /\ summary = NoValue
        /\ payloadFile = NoValue
        /\ ~uploaded

\* The parser threw on a malformed file and the run ended failed.
C10_Witness ==
    /\ MalformedRead
    /\ parsed = Threw
    /\ pc = "done"
    /\ "post" \in failed

---------------------------------------------------------------------------
(* The post phase around the definition file and the graph format *)

\* The parse step is over and found no definition: the workflow path could not
\* be derived, or the file at that path does not exist.
AbsentDefinition ==
    /\ pc \notin {"main", "post.state", "post.fetch", "post.parse"}
    /\ local # NoValue
    /\ (local.workflowPath = Undef \/ file = FileAbsent)

\* The summary carries the graph with one node line per job, in input order.
SummaryHasAllNodeLines ==
    /\ summary.pipeline.tag = "mermaid"
    /\ NodeLines(summary.pipeline.lines) = [i \in 1..Len(jobs) |-> nodeLine(jobs[i])]

\* The summary carries the timing table: one row per job, each job's row in it.
SummaryHasTimingTable ==
    /\ Len(summary.jobs) = Len(jobs)
    /\ \A i \in 1..Len(jobs) : \E k \in 1..Len(summary.jobs) : summary.jobs[k] = tableRow(jobs[i])

\* C11: when the definition file is absent or the workflow path cannot be
\* derived, the edge sequence is empty, the parse step does not mark the run
\* failed, and the summary that is written has every node line and the timing
\* table.
C11_AbsentDefinitionStillSummarizes ==
    AbsentDefinition =>
        /\ edges = <<>>
        /\ (pc = "post.render" => "post" \notin failed)
        /\ (summary # NoValue => SummaryHasAllNodeLines /\ SummaryHasTimingTable)

\* The same with the graph format a supported one.
AbsentDefinitionSupportedFormat ==
    (AbsentDefinition /\ supportedFormat(local.graphFormat)) =>
        /\ edges = <<>>
        /\ (pc = "post.render" => "post" \notin failed)
        /\ (summary # NoValue => SummaryHasAllNodeLines /\ SummaryHasTimingTable)

\* The render step is over for a requested graph format other than mermaid.
UnsupportedFormatRendered ==
    /\ local # NoValue
    /\ ~supportedFormat(local.graphFormat)
    /\ (pc \in {"post.summary", "post.artifact"} \/ summary # NoValue)

\* C12: a requested graph format other than mermaid does not abort the run; a
\* warning is recorded and the Mermaid graph of the run's jobs and edges is
\* rendered and is what the summary contains.
C12_UnsupportedFormatFallsBack ==
    UnsupportedFormatRendered =>
        /\ "Graph format is not supported yet" \in warnings
        /\ (pc = "post.summary" => "post" \notin failed)
        /\ mermaid = mermaidFlowLR(jobs, edges)
        /\ (summary # NoValue =>
                summary.pipeline = [tag |-> "mermaid", lines |-> mermaidFlowLR(jobs, edges)])

\* What the code does for such a format: it warns and goes on, with no graph
\* rendered and the placeholder text in the summary.
UnsupportedFormatPlaceholder ==
    UnsupportedFormatRendered =>
        /\ "Graph format is not supported yet" \in warnings
        /\ (pc = "post.summary" => "post" \notin failed)
        /\ mermaid = <<>>
        /\ (summary # NoValue => summary.pipeline.tag = "text")

---------------------------------------------------------------------------
(* The exported payload *)

\* The logical edge sequence the parser produced in this run.
ParserEdges == IF local.workflowPath = Undef THEN <<>> ELSE parsed.edges

\* The fields of a runtime node, its steps included, as the payload must show them.
SameJob(out, job) ==
    /\ out.id = job.id /\ out.name = job.name
    /\ out.status = job.status /\ out.conclusion = job.conclusion
    /\ out.started_at = job.started_at /\ out.completed_at = job.completed_at
    /\ out.steps = job.steps

PayloadAsSpecified ==
    payloadFile # NoValue =>
        /\ payloadFile.version = 1
        /\ payloadFile.edges = ParserEdges
        /\ Len(payloadFile.jobs) = Len(jobs)
        /\ \A i \in 1..Len(jobs) : SameJob(payloadFile.jobs[i], jobs[i])

\* The step that builds and writes the payload leaves its inputs as they were.
PayloadInputsKept ==
    pc = "post.artifact" => (jobs' = jobs /\ edges' = edges /\ local' = local)

\* C13: the payload has version 1, the parser's edge sequence as it is
\* (unresolved and repeated edges included), and every runtime node in input
\* order with its steps in order; building it changes none of its inputs.
C13_PayloadShape == []PayloadAsSpecified /\ [][PayloadInputsKept]_vars

\* A payload was written for two jobs, one of them with two steps, and an edge
\* sequence holding a repeated edge whose target names no job.
C13_Witness ==
    /\ payloadFile # NoValue
    /\ uploaded
    /\ Len(payloadFile.jobs) = 2
    /\ Len(payloadFile.jobs[1].steps) = 2
    /\ payloadFile.edges = edges
    /\ \E i, k \in 1..Len(edges) :
          /\ i < k
          /\ edges[i] = edges[k]
          /\ ~Resolves(edges[i][2], jobs)

---------------------------------------------------------------------------
(* The main phase's saved state and the post phase's use of it *)

\* The main phase ran to its end with a run-id input given.
MainDoneWithRunIdInput ==
    /\ inputs # NoInputs
    /\ "main" \notin failed
    /\ getInput(inputs.runId) # <<>>

\* C14: when the run-id input is given, the run-id the main phase saves is the
\* input's value, and the run the post phase fetches is the one with that id
\* rather than the context's run.
C14_RunIdInputOverrides ==
    MainDoneWithRunIdInput =>
        /\ saved.runId = getInput(inputs.runId)
        /\ (fetchedRun # NoValue => fetchedRun = toNumber(getInput(inputs.runId)))

\* What the code does: the saved run-id is always the context's run id.
SavedRunIdIsContextRunId ==
    (inputs # NoInputs /\ "main" \notin failed) =>
        /\ saved.runId = runIdToString(inputs.ctxRunId)
        /\ (fetchedRun # NoValue => fetchedRun = inputs.ctxRunId)

\* The artifact input, trimmed and lower-cased, is one of 0, false, no, off.
ArtifactOff ==
    toLowerCase(trim(inputs.artifact)) \in
        {<<"0">>, <<"f", "a", "l", "s", "e">>, <<"n", "o">>, <<"o", "f", "f">>}

\* C15: the artifact flag gates the export.  With the input one of 0, false,
\* no, off (any case, blanks around it) no octoflow.json is written and nothing
\* is uploaded, and the summary is still appended; with any other input, the
\* empty one included, the file is written once the summary is, and it is
\* uploaded in every run that ends without a failure.
C15_ArtifactGate ==
    inputs # NoInputs =>
        /\ (ArtifactOff => (payloadFile = NoValue /\ ~uploaded))
        /\ ((ArtifactOff /\ pc = "done" /\ failed = {}) => summary # NoValue)
        /\ ((~ArtifactOff /\ pc = "done" /\ summary # NoValue) => payloadFile # NoValue)
        /\ ((~ArtifactOff /\ pc = "done" /\ failed = {}) =>
                (summary # NoValue /\ payloadFile # NoValue /\ uploaded))
        /\ (uploaded => payloadFile # NoValue)

\* A run with artifact ' OFF ' ended without a failure: summary appended, no
\* file, no upload.
C15_Witness ==
    /\ inputs # NoInputs
    /\ inputs.artifact = <<" ", "O", "F", "F", " ">>
    /\ pc = "done"
    /\ failed = {}
    /\ summary # NoValue
    /\ payloadFile = NoValue
    /\ ~uploaded

\* Runs with an unrecognized and with an empty artifact input export the payload.
ArtifactOnReached ==
    /\ inputs # NoInputs
    /\ inputs.artifact \in {<<>>, <<"m", "a", "y", "b", "e">>}
    /\ pc = "done"
    /\ uploaded

---------------------------------------------------------------------------
(* The rendered graph as a whole *)

\* The identifiers the node lines of a graph declare.
DeclaredNodeIds(m) == {NodeLines(m)[i].id : i \in 1..Len(NodeLines(m))}

\* C16: in every rendered graph, both endpoint identifiers of every edge line
\* are identifiers of node lines of the same graph.
C16_EdgeEndpointsDeclared ==
    Rendered =>
        \A i \in 1..Len(EdgeLines(mermaid)) :
            /\ EdgeLines(mermaid)[i].from \in DeclaredNodeIds(mermaid)
            /\ EdgeLines(mermaid)[i].to \in DeclaredNodeIds(mermaid)

\* A graph of two jobs was rendered with an edge line for an edge one of whose
\* endpoints matches no job.
C16_Witness ==
    /\ Rendered
    /\ Len(jobs) = 2
    /\ UnresolvedEdges(edges, jobs) # {}
    /\ EdgeLines(mermaid) # <<>>
    /\ \A i \in 1..Len(EdgeLines(mermaid)) :
          {EdgeLines(mermaid)[i].from, EdgeLines(mermaid)[i].to} \subseteq DeclaredNodeIds(mermaid)

---------------------------------------------------------------------------
(* The post phase's check of the saved state *)

\* The post phase is past its check of the saved state.
PostChecked == pc \notin {"main", "post.state"}

\* A required piece of saved state is missing or empty, or the saved run-id is
\* not a decimal number.
SavedStateUnusable ==
    \/ <<>> \in {saved.token, saved.owner, saved.repo, saved.runId, saved.sha}
    \/ \E i \in 1..Len(saved.runId) : saved.runId[i] \notin DigitChars

\* The post phase ended failed and did nothing else.
PostFailedEarly ==
    /\ pc = "done"
    /\ "post" \in failed
    /\ fetchedRun = NoValue
    /\ summary = NoValue
    /\ payloadFile = NoValue
    /\ ~uploaded

\* The main phase completed without error with token, owner, repo and sha non-empty.
MainCompleted ==
    /\ inputs # NoInputs
    /\ "main" \notin failed
    /\ <<>> \notin {getInput(inputs.token), inputs.owner, inputs.repo, inputs.sha}

\* C17 as stated: unusable saved state ends the post phase failed with nothing
\* fetched, appended, written or uploaded; and after a main phase that
\* completed with non-empty token, owner, repo and sha the post phase passes
\* the check.
C17_SavedStateCheck ==
    PostChecked =>
        /\ (SavedStateUnusable => PostFailedEarly)
        /\ (MainCompleted => local # NoValue)

\* C17, amended: the same, the converse for a main phase whose context run id
\* is a number.
C17_SavedStateCheckNumericRunId ==
    PostChecked =>
        /\ (SavedStateUnusable => PostFailedEarly)
        /\ ((MainCompleted /\ inputs.ctxRunId # NaN) => local # NoValue)

\* The main phase saved 'NaN' as the run-id and the post phase ended failed on it.
C17_Witness ==
    /\ PostChecked
    /\ MainCompleted
    /\ saved.runId = S_NaN
    /\ PostFailedEarly

\* The post phase passed the check after a completed main phase.
PostPassedCheck ==
    /\ pc = "post.fetch"
    /\ MainCompleted
    /\ ~SavedStateUnusable
    /\ local # NoValue

\* The post phase ended failed on a missing token and on a missing sha.
PostFailedOnMissing ==
    /\ PostFailedEarly
    /\ (saved.token = <<>> \/ (saved.token # <<>> /\ saved.sha = <<>>))

====
